---- MODULE Spec2Model ----
(***************************************************************************)
(* Incremental indexing and retrieval pipeline of chatOxaion (query.py):   *)
(* text normalisation, heading chunking, chunk identities, the two         *)
(* embedding providers, the manifest, build_index and retrieve.            *)
(*                                                                         *)
(* A text is a sequence of tokens; a token is one character ("#", " ",     *)
(* "\n", "[", ...) or one word that the regular expressions of clean_text  *)
(* treat as a unit ("Login", "Onlinehilfe", "x").  A file is the sequence  *)
(* of its lines (what str.splitlines returns), each line a text.           *)
(***************************************************************************)
EXTENDS Integers, Sequences, FiniteSets, TLC

\* ------------------------------------------------------------------------
\* Text helpers (character classes and scans used by the regexes)
\* ------------------------------------------------------------------------

\* \s of the re module, on the alphabet of the model
IsSpace(c) == c \in {" ", "\n", "\t"}

\* [ \t] of the bullet-line pattern
IsBlank(c) == c \in {" ", "\t"}

\* first index >= i of s that is not whitespace (Len(s)+1 if none): greedy \s*
RECURSIVE SkipSpace(_, _)
SkipSpace(s, i) == IF i <= Len(s) /\ IsSpace(s[i]) THEN SkipSpace(s, i + 1) ELSE i

\* first index >= i of s that is not a blank: greedy [ \t]*
RECURSIVE SkipBlank(_, _)
SkipBlank(s, i) == IF i <= Len(s) /\ IsBlank(s[i]) THEN SkipBlank(s, i + 1) ELSE i

\* first index >= i of s that is not "#": greedy #+
RECURSIVE SkipHash(_, _)
SkipHash(s, i) == IF i <= Len(s) /\ s[i] = "#" THEN SkipHash(s, i + 1) ELSE i

\* ^ under re.MULTILINE: start of the string or just after a newline
LineStart(s, i) == i = 1 \/ s[i - 1] = "\n"

\* last index of the line that holds index i (".*$" from i)
RECURSIVE LineEnd(_, _)
LineEnd(s, i) == IF i + 1 <= Len(s) /\ s[i + 1] # "\n" THEN LineEnd(s, i + 1) ELSE i

\* str.strip(): drop leading and trailing whitespace
RECURSIVE RStrip(_)
RStrip(s) == IF s # <<>> /\ IsSpace(s[Len(s)]) THEN RStrip(SubSeq(s, 1, Len(s) - 1)) ELSE s

Strip(s) == LET t == RStrip(s) IN SubSeq(t, SkipSpace(t, 1), Len(t))

\* "\n".join(lines)
RECURSIVE Join(_)
Join(lines) ==
    IF lines = <<>> THEN <<>>
    ELSE IF Len(lines) = 1 THEN lines[1]
    ELSE lines[1] \o <<"\n">> \o Join(Tail(lines))

\* smallest q >= p with s[q] = ")" and no newline in s[p..q-1], 0 if none: ".*?\)"
RECURSIVE FindParen(_, _)
FindParen(s, p) ==
    IF p > Len(s) \/ s[p] = "\n" THEN 0
    ELSE IF s[p] = ")" THEN p
    ELSE FindParen(s, p + 1)

\* smallest p' >= p with s[p'] = "]", s[p'+1] = "(" and no newline before it,
\* 0 if none: ".*?\]\("
RECURSIVE FindBracket(_, _)
FindBracket(s, p) ==
    IF p + 1 > Len(s) \/ s[p] = "\n" THEN 0
    ELSE IF s[p] = "]" /\ s[p + 1] = "(" THEN p
    ELSE FindBracket(s, p + 1)

\* end of a match of \[.*?\]\(.*?\) that starts at i, 0 if it does not match
LinkEnd(s, i) ==
    IF i <= Len(s) /\ s[i] = "["
    THEN LET p == FindBracket(s, i + 1) IN IF p = 0 THEN 0 ELSE FindParen(s, p + 2)
    ELSE 0

\* re.sub(pattern, '', s) for a pattern given by its match end at a position
\* (0: no match there): non-overlapping matches, left to right
RECURSIVE Sub(_, _, _)
Sub(End(_, _), s, i) ==
    IF i > Len(s) THEN <<>>
    ELSE LET e == End(s, i) IN
         IF e > 0 THEN Sub(End, s, e + 1) ELSE <<s[i]>> \o Sub(End, s, i + 1)

\* ------------------------------------------------------------------------
\* clean_text (query.py:95-117)
\* ------------------------------------------------------------------------

LoginWords == {"Anmelden", "Login", "Abmelden"}

BoilerWords == {"Onlinehilfe", "Tastenkombinationen", "Feed-Builder"}

Bullets == {"*", "-"}

\* r'^\s*#\s+.+' matches at line start i
HeadingAt(s, i) ==
    /\ LineStart(s, i)
    /\ LET j == SkipSpace(s, i) IN
        /\ j + 1 <= Len(s)
        /\ s[j] = "#"
        /\ IsSpace(s[j + 1])
        /\ \E k \in (j + 2)..Len(s) :
              /\ s[k] # "\n"
              /\ \A m \in (j + 1)..(k - 1) : IsSpace(s[m])

\* text[m.start():] for the first match of the heading pattern, else text
KeepFromHeading(s) ==
    LET hits == {i \in 1..Len(s) : HeadingAt(s, i)} IN
    IF hits = {} THEN s
    ELSE SubSeq(s, CHOOSE i \in hits : \A j \in hits : i <= j, Len(s))

\* r'!\[.*?\]\(.*?\)'
ImageEnd(s, i) == IF s[i] = "!" THEN LinkEnd(s, i + 1) ELSE 0

\* r'\[(?:Anmelden|Login|Abmelden)\]\(.*?\)'
LoginEnd(s, i) ==
    IF /\ i + 3 <= Len(s)
       /\ s[i] = "["
       /\ s[i + 1] \in LoginWords
       /\ s[i + 2] = "]"
       /\ s[i + 3] = "("
    THEN FindParen(s, i + 4)
    ELSE 0

\* r'^[ \t]*[\*\-•]\s*\[.*?\]\(.*?\).*$'
BulletEnd(s, i) ==
    IF ~LineStart(s, i) THEN 0
    ELSE LET j == SkipBlank(s, i) IN
         IF j <= Len(s) /\ s[j] \in Bullets
         THEN LET e == LinkEnd(s, SkipSpace(s, j + 1)) IN
              IF e = 0 THEN 0 ELSE LineEnd(s, e)
         ELSE 0

\* r'(Onlinehilfe|Tastenkombinationen|Feed\-Builder|Suche\s*\.{3})'
BoilerEnd(s, i) ==
    IF s[i] \in BoilerWords THEN i
    ELSE IF s[i] = "Suche"
    THEN LET k == SkipSpace(s, i + 1) IN IF k <= Len(s) /\ s[k] = "..." THEN k ELSE 0
    ELSE 0

\* end of "\s*$" after index q: the longest whitespace run after q that stops
\* at the end of the string or before a newline; 0 if there is none
AnchorTail(s, q) ==
    LET r == SkipSpace(s, q + 1)
        nls == {n \in (q + 1)..(r - 1) : s[n] = "\n"}
    IN  IF r > Len(s) THEN Len(s)
        ELSE IF nls = {} THEN 0
        ELSE (CHOOSE n \in nls : \A m \in nls : m <= n) - 1

\* r'^\s*\[\]\(.*?\)\s*$'
AnchorEnd(s, i) ==
    IF ~LineStart(s, i) THEN 0
    ELSE LET j == SkipSpace(s, i) IN
         IF j + 2 <= Len(s) /\ s[j] = "[" /\ s[j + 1] = "]" /\ s[j + 2] = "("
         THEN LET qs == {q \in (j + 3)..LineEnd(s, j + 2) :
                            s[q] = ")" /\ AnchorTail(s, q) > 0}
              IN  IF qs = {} THEN 0
                  ELSE AnchorTail(s, CHOOSE q \in qs : \A p \in qs : q <= p)
         ELSE 0

\* r'\n{2,}' -> '\n\n'
RECURSIVE SkipNewlines(_, _)
SkipNewlines(s, i) == IF i <= Len(s) /\ s[i] = "\n" THEN SkipNewlines(s, i + 1) ELSE i

RECURSIVE Collapse(_, _)
Collapse(s, i) ==
    IF i > Len(s) THEN <<>>
    ELSE IF s[i] = "\n" /\ SkipNewlines(s, i) >= i + 2
    THEN <<"\n", "\n">> \o Collapse(s, SkipNewlines(s, i))
    ELSE <<s[i]>> \o Collapse(s, i + 1)

clean_text(text) ==
    LET t1 == KeepFromHeading(text)
        t2 == Sub(ImageEnd, t1, 1)
        t3 == Sub(LoginEnd, t2, 1)
        t4 == Sub(BulletEnd, t3, 1)
        t5 == Sub(BoilerEnd, t4, 1)
        t6 == Sub(AnchorEnd, t5, 1)
        t7 == Collapse(t6, 1)
    IN  Strip(t7)

\* ------------------------------------------------------------------------
\* chunk_markdown (query.py:119-138)
\* ------------------------------------------------------------------------

\* re.match(r'^\s*#+\s+', line)
IsHeadingLine(line) ==
    LET j == SkipSpace(line, 1)
        k == SkipHash(line, j)
    IN  k > j /\ k <= Len(line) /\ IsSpace(line[k])

\* the title of the text in front of the first heading: "# Inhalt"
DefaultTitle == <<"#", " ", "Inhalt">>

\* the (title, content) pair appended for the accumulated lines
MkChunk(title, cur) ==
    [title |-> IF title # <<>> THEN title ELSE DefaultTitle,
     content |-> clean_text(Strip(Join(cur)))]

\* the loop over the lines; title = <<>> stands for current_title = None
RECURSIVE ChunkLoop(_, _, _, _, _)
ChunkLoop(lines, i, chunks, title, cur) ==
    IF i > Len(lines)
    THEN IF cur # <<>> THEN Append(chunks, MkChunk(title, cur)) ELSE chunks
    ELSE IF IsHeadingLine(lines[i])
    THEN ChunkLoop(lines, i + 1,
                   IF cur # <<>> /\ title # <<>>
                   THEN Append(chunks, MkChunk(title, cur)) ELSE chunks,
                   Strip(lines[i]), <<>>)
    ELSE ChunkLoop(lines, i + 1, chunks, title, Append(cur, lines[i]))

\* chunk_markdown without line 138: chunks of an empty body are kept
chunk_markdown_keep_empty(md_text) ==
    ChunkLoop(md_text, 1, <<>>, <<>>, <<>>)

chunk_markdown(md_text) ==
    SelectSeq(ChunkLoop(md_text, 1, <<>>, <<>>, <<>>), LAMBDA c : c.content # <<>>)

\* ------------------------------------------------------------------------
\* Bounds of the model
\* ------------------------------------------------------------------------

\* failures injected in one behaviour (failed calls, kills, damaged files)
MaxFaults == 1

\* edits of the corpus in one behaviour (the clock behind st_mtime)
MaxClock == 1

\* ------------------------------------------------------------------------
\* The corpus: DOCS_DIR.glob("*.md")
\* ------------------------------------------------------------------------

FileA == "data/docs/a.md"

FileB == "data/docs/b.md"

Files == {FileA, FileB}

\* sorted([str(p) ...]): the order of the paths as strings
PathBefore(p, q) == p = FileA /\ q = FileB

\* Path(path).name
PathName(path) == IF path = FileA THEN "a.md" ELSE "b.md"

H(t) == <<"#", " ", t>>

\* the contents a file can have; 0 stands for "no such file"
DocsOf(path) ==
    IF path = FileA
    THEN << <<H("A"), <<"a">>, <<"p">>, H("B"), <<"b">>, H("C"), <<"c">>>>,
            <<H("A"), <<"a">>, <<"p">>, H("B"), <<"x">>, H("C"), <<"c">>>>,
            <<H("A"), <<"a">>, H("N"), <<"p">>, H("B"), <<"b">>, H("C"), <<"c">>>>,
            <<H("A"), <<"a">>, <<"p">>, H("N"), H("B"), <<"b">>, H("C"), <<"c">>>> >>
    ELSE << <<H("D"), <<"d">>>>,
            <<H("D"), <<"!", "[", "i", "]", "(", "u", ")">>, <<"e">>>> >>

Versions(path) == 0..Len(DocsOf(path))

\* p.read_text(...) of a file that exists
ReadText(path, v) == DocsOf(path)[v]

\* ------------------------------------------------------------------------
\* Chunk identities (query.py:140-142, 209-212)
\* ------------------------------------------------------------------------

\* hashlib.md5(...).hexdigest(): a collision-free digest, one value per input
md5(text) == [digest_of |-> text]

_chunk_id(path, title, content) ==
    [name |-> PathName(path),
     h |-> md5(<<path>> \o <<"\n">> \o title \o <<"\n">> \o content)]

\* variant of MkCid: the identity is the content hash alone, without the ordinal
MkCidNoIdx(path, chunks, i) ==
    [base |-> _chunk_id(path, chunks[i].title, chunks[i].content), idx |-> 0]

\* cid = f"{base}:{idx}", idx counted from 0
MkCid(path, chunks, i) ==
    [base |-> _chunk_id(path, chunks[i].title, chunks[i].content), idx |-> i - 1]

\* variant of NewIds: every identity of a file carries the ordinal 0
NewIdsNoOrdinal(path, chunks) ==
    [i \in 1..Len(chunks) |->
        [base |-> _chunk_id(path, chunks[i].title, chunks[i].content), idx |-> 0]]

\* new_ids of build_index for one file
NewIds(path, chunks) == [i \in 1..Len(chunks) |-> MkCid(path, chunks, i)]

\* the chunks and identities of every content, computed once
ChunksOf == [p \in Files |-> [v \in 1..Len(DocsOf(p)) |-> chunk_markdown(ReadText(p, v))]]

IdsOf == [p \in Files |-> [v \in 1..Len(DocsOf(p)) |-> NewIds(p, ChunksOf[p][v])]]

Range(f) == {f[i] : i \in DOMAIN f}

\* ------------------------------------------------------------------------
\* Embedding providers (query.py:44-92)
\* ------------------------------------------------------------------------

Primary == "ollama"

Secondary == "sentence-transformers"

\* _ollama_embed: one request per text; failAt = k > 0: the k-th request fails
\* (transport error, non-200, no embedding) and the exception leaves the loop
RECURSIVE OllamaLoop(_, _, _, _)
OllamaLoop(n, i, failAt, vecs) ==
    IF i > n THEN [raised |-> FALSE, vecs |-> vecs]
    ELSE IF i = failAt THEN [raised |-> TRUE, vecs |-> <<>>]
    ELSE OllamaLoop(n, i + 1, failAt, Append(vecs, Primary))

_ollama_embed(n, failAt) == OllamaLoop(n, 1, failAt, <<>>)

\* variant of Encode: a failure of the local model is swallowed and the
\* batch gets vectors of no provider
EncodeOrZeros(n, stFail) ==
    [raised |-> FALSE, vecs |-> [i \in 1..n |-> IF stFail THEN "none" ELSE Secondary]]

\* model.encode(texts): the local model
Encode(n, stFail) ==
    IF stFail THEN [raised |-> TRUE, vecs |-> <<>>]
    ELSE [raised |-> FALSE, vecs |-> [i \in 1..n |-> Secondary]]

\* variant of _embed_texts: after a failure of the primary provider only the
\* texts it has not answered go to the local model
_embed_texts_resume(n, up, failAt, stFail) ==
    LET r == _ollama_embed(n, failAt) IN
    IF up /\ ~r.raised THEN r
    ELSE IF stFail THEN [raised |-> TRUE, vecs |-> <<>>]
    ELSE [raised |-> FALSE,
          vecs |-> [i \in 1..n |-> IF up /\ i < failAt THEN Primary ELSE Secondary]]

\* _embed_texts on n texts: up is the answer of _ollama_server_up()
_embed_texts(n, up, failAt, stFail) ==
    LET r == _ollama_embed(n, failAt) IN
    IF up /\ ~r.raised THEN r ELSE Encode(n, stFail)

\* ------------------------------------------------------------------------
\* State
\* ------------------------------------------------------------------------

VARIABLES
    corpus,         \* [Files -> version]: the content of each file of DOCS_DIR, 0: no file
    mtime,          \* [Files -> Nat]: st_mtime of each file
    unreadable,     \* the files whose read_text raises
    clock,          \* the time of the last edit
    coll,           \* the Chroma collection: records [id, path, prov]
    manifestFile,   \* MANIFEST_FILE: [state, files]; state is "absent", "ok",
                    \* "corrupt" (read_text or json.loads raises) or "invalid"
                    \* (JSON that is no object with an object "files": [], 3, ...)
    metaFile,       \* META_FILE: "absent", "ok" or "corrupt"; in ConcSpec also
                    \* "partial": opened for writing and not written yet
    indexFile,      \* INDEX_FILE exists
    pc,             \* the position of the one thread of control
    caller,         \* who called build_index: "rebuild", "load1", "load2", and
                    \* in RecoverSpec "start": the start of app.py, and
                    \* "restart": the start of app.py after a kill
    manifest,       \* build_index: manifest["files"]
    known_files,    \* build_index: known_files
    current_files,  \* build_index: current_files
    fi,             \* build_index: position of the loop over current_files
    removed_files,  \* build_index: removed_files still to handle
    new_ids,        \* build_index: new_ids of the file in hand
    to_delete,      \* build_index: to_delete
    add_ids,        \* build_index: add_ids after de-duplication
    embeddings,     \* build_index: the vectors returned by _embed_texts
    run,            \* history: what the build in progress has done
    insync,         \* history: the last event on the index was a completed build
    indexed,        \* history: [Files -> version] the content of each file that a
                    \* build indexed last, 0: none, or seen absent since
    lastEmbed,      \* history: the last call of _embed_texts
    lastQuery,      \* history: the last similarity search of retrieve
    faults,         \* history: the failures injected so far
    md_text,        \* TextSpec: the text of a document, a sequence of lines
    text_chunks,    \* TextSpec: chunk_markdown(md_text)
    text_ids,       \* TextSpec: [Files -> new_ids] for that text stored under each path
    text_ids_again, \* TextSpec: the same, computed a second time
    cleaned,        \* TextSpec: the results of clean_text on the text and on its result
    thr,            \* ConcSpec: [Threads -> [at, i, ret]] the worker threads of the UI
    resp,           \* ChatSpec: the call of respond in progress and what it emitted
    crawl           \* CrawlSpec: the state of crawl_all

env == <<corpus, mtime, unreadable, clock>>

disk == <<manifestFile, metaFile, indexFile>>

locals == <<manifest, known_files, current_files, fi, removed_files,
            new_ids, to_delete, add_ids, embeddings>>

hist == <<run, insync, indexed, lastEmbed, lastQuery, faults>>

\* the variables of TextSpec and ConcSpec; Spec leaves them alone
side == <<md_text, text_chunks, text_ids, text_ids_again, cleaned, thr, resp, crawl>>

vars == <<env, coll, disk, pc, caller, locals, hist, side>>

NoEntries == [p \in {} |-> 0]

NoManifest == [state |-> "absent", files |-> NoEntries]

NoRun ==
    [second |-> FALSE, coll0 |-> {}, manifest0 |-> NoManifest, ops |-> {},
     failed |-> {}, embedded |-> {}, added |-> {}, deleted |-> {},
     synced |-> NoEntries, inflight |-> "", gone |-> {},
     ver0 |-> [f \in Files |-> 0]]

NoEmbed ==
    [n |-> 0, primaryFailed |-> FALSE, failAt |-> 0, stFail |-> FALSE,
     raised |-> FALSE, vecs |-> <<>>]

\* hits: the length of the list retrieve returns; error: the call that made
\* retrieve raise, "embed" or "collection"
NoQuery == [asked |-> FALSE, qprov |-> "", stored |-> {}, hits |-> 0, error |-> ""]

BuildPcs ==
    {"file", "delete", "predelete", "embed", "add", "entry", "removed",
     "snapshot", "save", "marker"}

\* the answers a call that can fail may give: TRUE is success
Outcomes == IF faults < MaxFaults THEN {TRUE, FALSE} ELSE {TRUE}

\* a call that succeeds or, while failures are left to inject, fails
Try(Call(_)) == Call(TRUE) \/ (faults < MaxFaults /\ Call(FALSE))

Ids(records) == {r.id : r \in records}

\* collection.get(where={"path": path})
RecordsOf(path) == {r \in coll : r.path = path}

\* ------------------------------------------------------------------------
\* The environment: the crawler and the user edit DOCS_DIR between builds
\* ------------------------------------------------------------------------

EditFile(f, v) ==
    /\ pc = "idle"
    /\ clock < MaxClock
    /\ v # corpus[f]
    /\ corpus' = [corpus EXCEPT ![f] = v]
    /\ clock' = clock + 1
    /\ mtime' = [mtime EXCEPT ![f] = IF v = 0 THEN 0 ELSE clock + 1]
    /\ insync' = FALSE
    /\ UNCHANGED <<unreadable, coll, disk, pc, caller, locals, run, indexed,
                   lastEmbed, lastQuery, faults>>
    /\ UNCHANGED side

\* a file becomes unreadable (read_text raises) or readable again
Chmod(f) ==
    /\ pc = "idle"
    /\ corpus[f] # 0
    /\ faults < MaxFaults
    /\ faults' = faults + 1
    /\ unreadable' = IF f \in unreadable THEN unreadable \ {f} ELSE unreadable \cup {f}
    /\ insync' = FALSE
    /\ UNCHANGED <<corpus, mtime, clock, coll, disk, pc, caller, locals, run,
                   indexed, lastEmbed, lastQuery>>
    /\ UNCHANGED side

\* the manifest file is lost, or overwritten with text that json.loads
\* rejects, or with JSON of another shape than a manifest
DamageManifest(st) ==
    /\ pc = "idle"
    /\ manifestFile.state = "ok"
    /\ faults < MaxFaults
    /\ faults' = faults + 1
    /\ manifestFile' = [state |-> st, files |-> NoEntries]
    /\ insync' = FALSE
    /\ UNCHANGED <<env, coll, metaFile, indexFile, pc, caller, locals, run,
                   indexed, lastEmbed, lastQuery>>
    /\ UNCHANGED side

\* the metadata snapshot is lost or damaged
DamageMeta(st) ==
    /\ pc = "idle"
    /\ metaFile = "ok"
    /\ faults < MaxFaults
    /\ faults' = faults + 1
    /\ metaFile' = st
    /\ UNCHANGED <<env, coll, manifestFile, indexFile, pc, caller, locals, run,
                   insync, indexed, lastEmbed, lastQuery>>
    /\ UNCHANGED side

\* ------------------------------------------------------------------------
\* build_index (query.py:177-283)
\* ------------------------------------------------------------------------

\* _load_manifest()["files"]: an absent or unparsable file reads as empty
_load_manifest == IF manifestFile.state = "ok" THEN manifestFile.files ELSE NoEntries

\* sorted(...) of a set of paths
SortedPaths(S) ==
    CHOOSE s \in [1..Cardinality(S) -> S] :
        /\ Range(s) = S
        /\ \A i, j \in 1..Cardinality(S) : i < j => PathBefore(s[i], s[j])

\* f with f[k] = v
Put(f, k, v) == [x \in DOMAIN f \cup {k} |-> IF x = k THEN v ELSE f[x]]

\* f without the key k: dict.pop(k, None)
Pop(f, k) == [x \in DOMAIN f \ {k} |-> f[x]]

\* the keys of the dict "unique": each id once, in the order of first insertion
RECURSIVE Dedup(_)
Dedup(s) ==
    IF s = <<>> THEN <<>>
    ELSE LET r == Dedup(SubSeq(s, 1, Len(s) - 1)) IN
         IF s[Len(s)] \in Range(r) THEN r ELSE Append(r, s[Len(s)])

\* variant of AddIds: a file with any new id is added again as a whole
AddIdsWholeFile(ids, existing_ids) ==
    IF Range(ids) \subseteq existing_ids THEN <<>> ELSE Dedup(ids)

\* variant of AddIds: every chunk of a file that the manifest does not list
\* is added again
AddIdsUnknownFile(ids, existing_ids) ==
    IF fi \in 1..Len(current_files) /\ current_files[fi] \notin known_files
    THEN Dedup(ids)
    ELSE Dedup(SelectSeq(ids, LAMBDA cid : cid \notin existing_ids))

\* add_ids: the new ids that the collection does not hold, de-duplicated
AddIds(ids, existing_ids) == Dedup(SelectSeq(ids, LAMBDA cid : cid \notin existing_ids))

\* variant of LoopPc: build_index returns at once when the corpus has no file
LoopPcEarlyReturn(cur, i, rem) ==
    IF cur = <<>> THEN "done"
    ELSE IF i <= Len(cur) THEN "file" ELSE IF rem # {} THEN "removed" ELSE "snapshot"

\* where the control goes when the loop over current_files is at position i
LoopPc(cur, i, rem) ==
    IF i <= Len(cur) THEN "file" ELSE IF rem # {} THEN "removed" ELSE "snapshot"

\* the run has issued the call op; ok tells whether it succeeded
RunOp(op, ok) ==
    [run EXCEPT !.ops = @ \cup {op}, !.failed = IF ok THEN @ ELSE @ \cup {op}]

Cost(ok) == IF ok THEN 0 ELSE 1

\* line 190: manifest.get("files", {}).keys() works on what json.loads gave
ManifestShapeOk == manifestFile.state # "invalid"

\* lines 186-192: open the collection, load the manifest, scan the corpus;
\* AttributeError leaves build_index at line 190 when the JSON is no manifest
StartBuild(c) ==
    IF ~ManifestShapeOk
    THEN /\ caller' = c
         /\ pc' = "raised"
         /\ run' = [NoRun EXCEPT !.coll0 = coll, !.manifest0 = manifestFile,
                                 !.failed = {"manifest"}]
         /\ insync' = FALSE
         /\ UNCHANGED <<env, coll, disk, locals, indexed, lastEmbed, lastQuery,
                        faults>>
    ELSE
    LET m == _load_manifest
        cur == SortedPaths({f \in Files : corpus[f] # 0})
        rem == DOMAIN m \ Range(cur)
    IN  /\ caller' = c
        /\ manifest' = m
        /\ known_files' = DOMAIN m
        /\ current_files' = cur
        /\ removed_files' = rem
        /\ fi' = 1
        /\ new_ids' = <<>>
        /\ to_delete' = {}
        /\ add_ids' = <<>>
        /\ embeddings' = <<>>
        /\ pc' = LoopPc(cur, 1, rem)
        /\ run' = [NoRun EXCEPT !.second = insync, !.coll0 = coll,
                                !.manifest0 = manifestFile,
                                !.gone = {f \in Files : indexed[f] # 0 /\ corpus[f] = 0},
                                !.ver0 = indexed]
        /\ insync' = FALSE
        /\ indexed' = [f \in Files |-> IF corpus[f] = 0 THEN 0 ELSE indexed[f]]
        /\ UNCHANGED <<env, coll, disk, lastEmbed, lastQuery, faults>>

\* _rebuild of the UI, the start of app.py and of query.py
Rebuild ==
    /\ pc = "idle"
    /\ StartBuild("rebuild")
    /\ UNCHANGED side

\* variant of SkipFile: the exception of read_text leaves build_index
SkipFileRaises ==
    /\ pc' = "raised"
    /\ UNCHANGED <<fi, new_ids, to_delete, add_ids, run, faults>>

\* lines 197-200: read_text raised, "continue" with the next file
SkipFile ==
    /\ fi' = fi + 1
    /\ pc' = LoopPc(current_files, fi + 1, removed_files)
    /\ UNCHANGED <<new_ids, to_delete, add_ids, run, faults>>

\* lines 195-226: read and chunk one file, compute its ids, diff with the collection
ReadFile ==
    /\ pc = "file"
    /\ LET path == current_files[fi] IN
       IF path \in unreadable
       THEN SkipFile
       ELSE LET Get(getOk) ==
                  LET ids == IdsOf[path][corpus[path]]
                      existing_ids == IF getOk THEN Ids(RecordsOf(path)) ELSE {}
                      del == existing_ids \ Range(ids)
                      adds == AddIds(ids, existing_ids)
                  IN  /\ new_ids' = ids
                      /\ to_delete' = del
                      /\ add_ids' = adds
                      /\ pc' = IF del # {} THEN "delete"
                               ELSE IF adds # <<>> THEN "predelete" ELSE "entry"
                      /\ run' = [RunOp("get", getOk) EXCEPT !.inflight = path]
                      /\ faults' = faults + Cost(getOk)
                      /\ fi' = fi
            IN  Try(Get)
    /\ UNCHANGED <<env, coll, disk, caller, manifest, known_files, current_files,
                   removed_files, embeddings, insync, indexed, lastEmbed, lastQuery>>
    /\ UNCHANGED side

\* lines 227-232: delete the stale ids of the file; a failure is swallowed
DeleteStale ==
    /\ pc = "delete"
    /\ LET Delete(ok) ==
             /\ coll' = IF ok THEN {r \in coll : r.id \notin to_delete} ELSE coll
             /\ run' = [RunOp("delete", ok) EXCEPT
                            !.deleted = IF ok THEN @ \cup to_delete ELSE @]
             /\ faults' = faults + Cost(ok)
       IN  Try(Delete)
    /\ pc' = IF add_ids # <<>> THEN "predelete" ELSE "entry"
    /\ UNCHANGED <<env, disk, caller, locals, insync, indexed, lastEmbed, lastQuery>>
    /\ UNCHANGED side

\* lines 246-251: the defensive delete of the ids about to be added
PreDelete ==
    /\ pc = "predelete"
    /\ LET Delete(ok) ==
             /\ coll' = IF ok THEN {r \in coll : r.id \notin Range(add_ids)} ELSE coll
             /\ run' = [RunOp("predelete", ok) EXCEPT
                            !.deleted = IF ok THEN @ \cup (Range(add_ids) \cap Ids(coll))
                                        ELSE @]
             /\ faults' = faults + Cost(ok)
       IN  Try(Delete)
    /\ pc' = "embed"
    /\ UNCHANGED <<env, disk, caller, locals, insync, indexed, lastEmbed, lastQuery>>
    /\ UNCHANGED side

\* the outcomes of one call of _embed_texts on n texts that the environment allows
EmbedInputs(n) ==
    {i \in [up : BOOLEAN, failAt : 0..n, stFail : {~ok : ok \in Outcomes}] :
        /\ ~i.up => i.failAt = 0
        /\ i.stFail => (~i.up \/ i.failAt > 0)}

EmbedCall(n, i) ==
    LET r == _embed_texts(n, i.up, i.failAt, i.stFail) IN
    [n |-> n, primaryFailed |-> ~i.up \/ i.failAt > 0, failAt |-> i.failAt,
     stFail |-> i.stFail, raised |-> r.raised, vecs |-> r.vecs]

\* line 253: embed the documents to add as one batch
Embed ==
    /\ pc = "embed"
    /\ \E i \in EmbedInputs(Len(add_ids)) :
         LET e == EmbedCall(Len(add_ids), i) IN
         /\ lastEmbed' = e
         /\ embeddings' = e.vecs
         /\ pc' = IF e.raised THEN "raised" ELSE "add"
         /\ run' = [RunOp("embed", ~e.raised) EXCEPT !.embedded = @ \cup Range(add_ids)]
         /\ faults' = faults + Cost(~i.stFail)
    /\ UNCHANGED <<env, coll, disk, caller, manifest, known_files, current_files, fi,
                   removed_files, new_ids, to_delete, add_ids, insync, indexed,
                   lastQuery>>
    /\ UNCHANGED side

\* the records that collection.add is given
AddRecords ==
    {[id |-> add_ids[i], path |-> current_files[fi], prov |-> embeddings[i]] :
        i \in 1..Len(add_ids)}

\* line 254: collection.add; an id the collection already holds is either
\* rejected (DuplicateIDError) or left as it is, depending on the Chroma release
Add ==
    /\ pc = "add"
    /\ LET dup == Range(add_ids) \cap Ids(coll)
           Result(res) ==
             /\ coll' = IF res = "ok" THEN coll \cup {r \in AddRecords : r.id \notin dup}
                        ELSE coll
             /\ run' = [RunOp("add", res = "ok") EXCEPT
                            !.added = IF res = "ok" THEN @ \cup (Range(add_ids) \ dup)
                                      ELSE @]
             /\ pc' = IF res = "ok" THEN "entry" ELSE "raised"
             /\ faults' = faults + Cost(res # "fail")
       IN  \/ Result("ok")
           \/ dup # {} /\ Result("duplicate")
           \/ faults < MaxFaults /\ Result("fail")
    /\ lastEmbed' = NoEmbed
    /\ UNCHANGED <<env, disk, caller, locals, insync, indexed, lastQuery>>
    /\ UNCHANGED side

\* lines 256-260: the entry of the file in the manifest in memory
UpdateEntry ==
    /\ pc = "entry"
    /\ LET path == current_files[fi] IN
         /\ manifest' = Put(manifest, path, [mtime |-> mtime[path], ids |-> new_ids])
         /\ run' = [run EXCEPT !.synced = Put(@, path, new_ids), !.inflight = ""]
         /\ indexed' = [indexed EXCEPT ![path] = corpus[path]]
    /\ fi' = fi + 1
    /\ pc' = LoopPc(current_files, fi + 1, removed_files)
    /\ new_ids' = <<>>
    /\ to_delete' = {}
    /\ add_ids' = <<>>
    /\ embeddings' = <<>>
    /\ UNCHANGED <<env, coll, disk, caller, known_files, current_files,
                   removed_files, insync, lastEmbed, lastQuery, faults>>
    /\ UNCHANGED side

\* lines 262-269: one file of removed_files; a failure of the delete is swallowed
RemoveFile(path) ==
    /\ pc = "removed"
    /\ path \in removed_files
    /\ LET Delete(ok) ==
             /\ coll' = IF ok THEN {r \in coll : r.path # path} ELSE coll
             /\ run' = [RunOp("delete_where", ok) EXCEPT
                            !.deleted = IF ok THEN @ \cup Ids(RecordsOf(path)) ELSE @]
             /\ faults' = faults + Cost(ok)
       IN  Try(Delete)
    /\ manifest' = Pop(manifest, path)
    /\ removed_files' = removed_files \ {path}
    /\ pc' = IF removed_files \ {path} = {} THEN "snapshot" ELSE "removed"
    /\ UNCHANGED <<env, disk, caller, known_files, current_files, fi, new_ids,
                   to_delete, add_ids, embeddings, insync, indexed, lastEmbed,
                   lastQuery>>
    /\ UNCHANGED side

\* lines 271-274: pickle the metadata of the collection into META_FILE
SaveMeta ==
    /\ pc = "snapshot"
    /\ metaFile' = "ok"
    /\ pc' = "save"
    /\ UNCHANGED <<env, coll, manifestFile, indexFile, caller, locals, hist>>
    /\ UNCHANGED side

\* line 277: _save_manifest(manifest)
SaveManifest ==
    /\ pc = "save"
    /\ manifestFile' = [state |-> "ok", files |-> manifest]
    /\ pc' = "marker"
    /\ UNCHANGED <<env, coll, metaFile, indexFile, caller, locals, hist>>
    /\ UNCHANGED side

\* lines 278-283: the marker file; build_index is about to return
WriteMarker ==
    /\ pc = "marker"
    /\ indexFile' = TRUE
    /\ pc' = "done"
    /\ UNCHANGED <<env, coll, manifestFile, metaFile, caller, locals, hist>>
    /\ UNCHANGED side

ClearLocals ==
    /\ manifest' = NoEntries
    /\ known_files' = {}
    /\ current_files' = <<>>
    /\ fi' = 0
    /\ removed_files' = {}
    /\ new_ids' = <<>>
    /\ to_delete' = {}
    /\ add_ids' = <<>>
    /\ embeddings' = <<>>

\* build_index returns to its caller
BuildReturn ==
    /\ pc = "done"
    /\ pc' = IF caller \in {"rebuild", "start", "restart"} THEN "idle"
             ELSE IF caller = "load1" THEN "load" ELSE "load2"
    /\ caller' = "none"
    /\ ClearLocals
    /\ run' = NoRun
    /\ insync' = ("get" \notin run.failed)
    /\ UNCHANGED <<env, coll, disk, indexed, lastEmbed, lastQuery, faults>>
    /\ UNCHANGED side

\* the process is stopped in the middle of a build
Interrupt ==
    /\ pc \in BuildPcs
    /\ faults < MaxFaults
    /\ faults' = faults + 1
    /\ pc' = "killed"
    /\ UNCHANGED <<env, coll, disk, caller, locals, run, insync, indexed,
                   lastEmbed, lastQuery>>
    /\ UNCHANGED side

\* after an exception reached the caller, or after a restart: idle again
Recover ==
    /\ pc \in {"raised", "killed"}
    /\ pc' = "idle"
    /\ caller' = "none"
    /\ ClearLocals
    /\ run' = NoRun
    /\ lastEmbed' = NoEmbed
    /\ lastQuery' = NoQuery
    /\ UNCHANGED <<env, coll, disk, insync, indexed, faults>>
    /\ UNCHANGED side

\* ------------------------------------------------------------------------
\* load_data and retrieve (query.py:285-329)
\* ------------------------------------------------------------------------

\* variant of RetrieveStart: load_data builds at every call
RetrieveStartAlways ==
    /\ pc = "idle"
    /\ StartBuild("load1")
    /\ UNCHANGED side

\* lines 290-291: build when the snapshot or the marker is missing
RetrieveStart ==
    /\ pc = "idle"
    /\ IF metaFile = "absent" \/ ~indexFile
       THEN StartBuild("load1")
       ELSE /\ pc' = "load"
            /\ UNCHANGED <<env, coll, disk, caller, locals, hist>>
    /\ UNCHANGED side

\* lines 293-298: load the snapshot; build again when it cannot be loaded
LoadMeta ==
    /\ pc = "load"
    /\ IF metaFile = "ok"
       THEN /\ pc' = "query"
            /\ UNCHANGED <<env, coll, disk, caller, locals, hist>>
       ELSE StartBuild("load2")
    /\ UNCHANGED side

\* lines 299-300: the second load is not guarded
LoadMetaAgain ==
    /\ pc = "load2"
    /\ pc' = IF metaFile = "ok" THEN "query" ELSE "raised"
    /\ UNCHANGED <<env, coll, disk, caller, locals, hist>>
    /\ UNCHANGED side

\* retrieve(query, top_k=3)
TopK == 3

\* lines 315-329: collection.query gives the n_results nearest records, all of
\* them when the collection holds fewer; retrieve returns one item for each
Hits(records) == IF Cardinality(records) < TopK THEN Cardinality(records) ELSE TopK

\* lines 302-315: open the collection, embed the query, search
Query ==
    /\ pc = "query"
    /\ \E i \in EmbedInputs(1) :
         LET e == EmbedCall(1, i)
             Search(ok) ==
               /\ i.stFail => ok
               /\ lastEmbed' = e
               /\ faults' = faults + Cost(~i.stFail) + Cost(ok)
               /\ IF e.raised \/ ~ok
                  THEN /\ pc' = "raised"
                       /\ lastQuery' = [NoQuery EXCEPT !.error =
                                           IF e.raised THEN "embed" ELSE "collection"]
                  ELSE /\ pc' = "answered"
                       /\ lastQuery' = [asked |-> TRUE, qprov |-> e.vecs[1],
                                        stored |-> {r.prov : r \in coll},
                                        hits |-> Hits(coll), error |-> ""]
         IN  Try(Search)
    /\ UNCHANGED <<env, coll, disk, caller, locals, run, insync, indexed>>
    /\ UNCHANGED side

\* lines 316-329: the hits go back to the caller
RetrieveReturn ==
    /\ pc = "answered"
    /\ pc' = "idle"
    /\ lastEmbed' = NoEmbed
    /\ lastQuery' = NoQuery
    /\ UNCHANGED <<env, coll, disk, caller, locals, run, insync, indexed, faults>>
    /\ UNCHANGED side

\* ------------------------------------------------------------------------
\* Specification
\* ------------------------------------------------------------------------

\* the worker threads of the UI that can call build_index: the handler of the
\* rebuild button (app.py:580-584) and the chat handler respond (app.py:460-468)
Threads == {"rebuild", "chat"}

IdleThread == [at |-> "idle", i |-> 0, ret |-> "idle"]

NoIds == [p \in Files |-> <<>>]

\* nothing has been indexed yet
FreshDisk ==
    /\ mtime = [f \in Files |-> 0]
    /\ unreadable = {}
    /\ clock = 0
    /\ coll = {}
    /\ manifestFile = NoManifest
    /\ metaFile = "absent"
    /\ indexFile = FALSE

\* no call of build_index or of retrieve is in progress
NoBuild ==
    /\ caller = "none"
    /\ manifest = NoEntries
    /\ known_files = {}
    /\ current_files = <<>>
    /\ fi = 0
    /\ removed_files = {}
    /\ new_ids = <<>>
    /\ to_delete = {}
    /\ add_ids = <<>>
    /\ embeddings = <<>>
    /\ run = NoRun
    /\ insync = FALSE
    /\ indexed = [f \in Files |-> 0]
    /\ lastEmbed = NoEmbed
    /\ lastQuery = NoQuery
    /\ faults = 0

NoText ==
    /\ md_text = <<>>
    /\ cleaned = <<>>
    /\ text_chunks = <<>>
    /\ text_ids = NoIds
    /\ text_ids_again = NoIds

NoThreads == thr = [t \in Threads |-> IdleThread]

\* respond before a message is submitted (app.py:460): emitted is what the
\* iteration of the generator has delivered, returned the value of its
\* return statement
IdleResp ==
    [at |-> "idle", message |-> <<>>, history |-> <<>>, use_llm |-> FALSE,
     results |-> <<>>, stream |-> <<>>, assistant_text |-> <<>>,
     working_history |-> <<>>, emitted |-> <<>>, returned |-> <<>>]

\* no call of respond is in progress
NoChat == resp = IdleResp

\* crawl_all before it is called (crawler.py:28); processed, failed, seen
\* and refused are history: the URLs that passed line 61, in that order,
\* the URLs given up after the last attempt, the URLs that were enqueued
\* and the URLs that line 88 did not enqueue
IdleCrawl ==
    [at |-> "idle", queue |-> <<>>, visited |-> {}, url |-> <<>>, attempt |-> 0,
     saved |-> {}, processed |-> <<>>, failed |-> {}, seen |-> {}, refused |-> {}]

\* crawl_all has not been called
NoCrawl == crawl = IdleCrawl

Init ==
    /\ corpus \in [Files -> {0, 1}]
    /\ FreshDisk
    /\ pc = "idle"
    /\ NoBuild
    /\ NoText
    /\ NoThreads
    /\ NoChat
    /\ NoCrawl

Next ==
    \/ \E f \in Files : \E v \in Versions(f) : EditFile(f, v)
    \/ \E f \in Files : Chmod(f)
    \/ \E st \in {"absent", "corrupt", "invalid"} : DamageManifest(st)
    \/ \E st \in {"absent", "corrupt"} : DamageMeta(st)
    \/ Rebuild
    \/ ReadFile
    \/ DeleteStale
    \/ PreDelete
    \/ Embed
    \/ Add
    \/ UpdateEntry
    \/ \E path \in Files : RemoveFile(path)
    \/ SaveMeta
    \/ SaveManifest
    \/ WriteMarker
    \/ BuildReturn
    \/ Interrupt
    \/ Recover
    \/ RetrieveStart
    \/ LoadMeta
    \/ LoadMetaAgain
    \/ Query
    \/ RetrieveReturn

Spec == Init /\ [][Next]_vars

\* ------------------------------------------------------------------------
\* TextSpec: chunk_markdown and the identities of one document
\* (query.py:119-142, 203-214)
\* ------------------------------------------------------------------------

\* the longest document, in lines
MaxLines == 4

\* the lines a document is made of: headings, a body line, a blank line, a
\* line that clean_text removes, the delimiter of a fenced code block and
\* a line in which a boilerplate token stands inside an image reference
TextLines ==
    {H("A"), H("B"), <<"a">>, <<>>, <<"!", "[", "i", "]", "(", "u", ")">>, <<"~~~">>,
     <<"!", "Onlinehilfe", "[", "i", "]", "(", "u", ")">>}

TextDocs == UNION {[1..n -> TextLines] : n \in 0..MaxLines}

\* the variables TextSpec leaves alone
rest == <<env, coll, disk, caller, locals, hist, thr, resp, crawl>>

TextInit ==
    /\ md_text \in TextDocs
    /\ text_chunks = <<>>
    /\ text_ids = NoIds
    /\ text_ids_again = NoIds
    /\ cleaned = <<>>
    /\ pc = "text"
    /\ corpus = [f \in Files |-> 0]
    /\ FreshDisk
    /\ NoBuild
    /\ NoThreads
    /\ NoChat
    /\ NoCrawl

\* line 203: chunks = chunk_markdown(md_text)
Chunk ==
    /\ pc = "text"
    /\ text_chunks' = chunk_markdown(md_text)
    /\ pc' = "chunked"
    /\ UNCHANGED <<md_text, text_ids, text_ids_again, cleaned, rest>>

\* lines 205-214: new_ids of the text, for a file of that content at each path
Identify ==
    /\ pc = "chunked"
    /\ text_ids' = [p \in Files |-> NewIds(p, text_chunks)]
    /\ pc' = "identified"
    /\ UNCHANGED <<md_text, text_chunks, text_ids_again, cleaned, rest>>

\* lines 203-214 in the next run: the unchanged text is chunked again
Rechunk ==
    /\ pc = "identified"
    /\ text_ids_again' = [p \in Files |-> NewIds(p, chunk_markdown(md_text))]
    /\ pc' = "rechunked"
    /\ UNCHANGED <<md_text, text_chunks, text_ids, cleaned, rest>>

\* query.py:95-117: clean_text on the whole text of the document
Clean ==
    /\ pc = "text"
    /\ cleaned' = <<clean_text(Join(md_text))>>
    /\ pc' = "cleaned"
    /\ UNCHANGED <<md_text, text_chunks, text_ids, text_ids_again, rest>>

\* query.py:95-117: clean_text on its own result
CleanAgain ==
    /\ pc = "cleaned"
    /\ cleaned' = Append(cleaned, clean_text(cleaned[1]))
    /\ pc' = "cleaned_again"
    /\ UNCHANGED <<md_text, text_chunks, text_ids, text_ids_again, rest>>

TextNext ==
    \/ Chunk
    \/ Identify
    \/ Rechunk
    \/ Clean
    \/ CleanAgain

TextSpec == TextInit /\ [][TextNext]_vars

\* ------------------------------------------------------------------------
\* RecoverSpec: the process is killed in build_index and started again
\* (app.py:619-623, query.py:177-283)
\* ------------------------------------------------------------------------

\* the records that the adds of a build of corpus c leave (query.py:254)
AddedRecords(c, prov) ==
    UNION {{[id |-> IdsOf[f][c[f]][k], path |-> f, prov |-> prov] :
               k \in 1..Len(IdsOf[f][c[f]])} : f \in {g \in Files : c[g] # 0}}

\* The first build, of a corpus c0, was killed after its last add (line 254)
\* and before the manifest was saved (line 277); the corpus was edited
\* since and the process is not running.
RecoverInit ==
    /\ corpus \in [Files -> {0, 1}]
    /\ mtime = [f \in Files |-> 0]
    /\ unreadable = {}
    /\ clock = 0
    /\ \E c0 \in [Files -> {0, 1}] : \E prov \in {Primary, Secondary} :
          /\ coll = AddedRecords(c0, prov)
          /\ indexed = c0
    /\ manifestFile = NoManifest
    /\ metaFile = "absent"
    /\ indexFile = FALSE
    /\ pc = "stopped"
    /\ caller = "none"
    /\ manifest = NoEntries
    /\ known_files = {}
    /\ current_files = <<>>
    /\ fi = 0
    /\ removed_files = {}
    /\ new_ids = <<>>
    /\ to_delete = {}
    /\ add_ids = <<>>
    /\ embeddings = <<>>
    /\ run = NoRun
    /\ insync = FALSE
    /\ lastEmbed = NoEmbed
    /\ lastQuery = NoQuery
    /\ faults = 0
    /\ NoText
    /\ NoThreads
    /\ NoChat
    /\ NoCrawl

\* app.py:619-621: the process starts; the snapshot and the marker are
\* missing, so build_index runs before the UI is launched
Start ==
    /\ pc = "stopped"
    /\ metaFile = "absent" \/ ~indexFile
    /\ StartBuild("start")
    /\ UNCHANGED side

\* app.py:619-621: the process starts after it was killed in build_index,
\* on the corpus of the killed build
Restart ==
    /\ pc = "killed"
    /\ metaFile = "absent" \/ ~indexFile
    /\ StartBuild("restart")
    /\ UNCHANGED side

RecoverNext ==
    \/ Next
    \/ Start
    \/ Restart

RecoverSpec == RecoverInit /\ [][RecoverNext]_vars

\* ------------------------------------------------------------------------
\* ChatSpec: the chat handler respond of the UI (app.py:460-505, 568-572).
\* respond holds yield statements, so calling it returns a generator: the
\* UI shows what the iteration of the generator delivers, and the value of
\* a return statement ends the iteration without being delivered.
\* ------------------------------------------------------------------------

\* the longest answer of the language model, in chunks
MaxChunks == 2

\* the lists retrieve can return: records with title, content and url
ChatResults ==
    {<<>>,
     <<[title |-> H("A"), content |-> <<"a">>, url |-> "u1"]>>,
     <<[title |-> H("A"), content |-> <<"a">>, url |-> "u1"],
       [title |-> H("B"), content |-> <<"b">>, url |-> ""]>>}

\* the chat histories a message is submitted with
ChatHistories ==
    {<<>>,
     <<[role |-> "user", content |-> <<"p">>],
       [role |-> "assistant", content |-> <<"r">>]>>}

\* the chunks ask_ollama_stream can yield: it yields no empty chunk
\* (app.py:243-263)
ChatStreams == UNION {[1..n -> {"x", "y"}] : n \in 0..MaxChunks}

\* the variables ChatSpec leaves alone
nochat == <<env, coll, disk, pc, caller, locals, hist, md_text, text_chunks, text_ids,
            text_ids_again, cleaned, thr, crawl>>

ChatInit ==
    /\ corpus = [f \in Files |-> 0]
    /\ FreshDisk
    /\ pc = "idle"
    /\ NoBuild
    /\ NoText
    /\ NoThreads
    /\ NoChat
    /\ NoCrawl

\* "\n\n".join of the contents, stripped (app.py:321-327; the contents of
\* the model are shorter than max_chars)
RECURSIVE JoinContents(_)
JoinContents(contexts) ==
    IF contexts = <<>> THEN <<>>
    ELSE IF Len(contexts) = 1 THEN contexts[1].content
    ELSE contexts[1].content \o <<"\n\n">> \o JoinContents(Tail(contexts))

extractive_answer(contexts) == Strip(JoinContents(contexts))

\* _clean_title: the title without its heading marker (app.py:116-119)
CleanTitle(title) == LET k == SkipHash(title, SkipSpace(title, 1)) IN
                     Strip(SubSeq(title, k, Len(title)))

\* the numbered lines of format_sources (app.py:121-150)
RECURSIVE SourceLines(_, _)
SourceLines(items, i) ==
    IF i > Len(items) THEN <<>>
    ELSE <<"\n", i, ". ">> \o
         (IF items[i].url # ""
          THEN <<"[">> \o CleanTitle(items[i].title) \o <<"](", items[i].url, ")">>
          ELSE CleanTitle(items[i].title)) \o SourceLines(items, i + 1)

\* format_sources(results) if results else "" (app.py:473, 502)
sources_md(results) ==
    IF results = <<>> THEN <<>> ELSE <<"sources_label">> \o SourceLines(results, 1)

\* history + [user message, assistant message] (app.py:474-477, 485-488)
WithExchange(history, message, content) ==
    history \o <<[role |-> "user", content |-> message],
                 [role |-> "assistant", content |-> content]>>

\* msg.submit (app.py:568-572): respond is called with the message, the
\* history of the chatbot and the switch of the language model
Submit ==
    /\ resp.at = "idle"
    /\ \E history \in ChatHistories : \E use_llm \in BOOLEAN :
          resp' = [IdleResp EXCEPT !.at = "retrieve", !.message = <<"q">>,
                                   !.history = history, !.use_llm = use_llm]
    /\ UNCHANGED nochat

\* app.py:468: rag.retrieve, not guarded; an exception ends the generator
RespondRetrieve ==
    /\ resp.at = "retrieve"
    /\ \/ \E results \in ChatResults :
             resp' = [resp EXCEPT !.results = results,
                                  !.at = IF resp.use_llm THEN "prompt" ELSE "extract"]
       \/ resp' = [resp EXCEPT !.at = "raised"]
    /\ UNCHANGED nochat

\* app.py:471-478: the extractive answer is the value of a return statement
Extractive ==
    /\ resp.at = "extract"
    /\ resp' = [resp EXCEPT
          !.returned = WithExchange(resp.history, resp.message,
                          extractive_answer(resp.results) \o <<"\n\n">> \o
                          sources_md(resp.results)),
          !.at = "finished"]
    /\ UNCHANGED nochat

\* app.py:480-491: the empty assistant message is yielded; the model
\* starts to answer
FirstYield ==
    /\ resp.at = "prompt"
    /\ \E stream \in ChatStreams :
          LET wh == WithExchange(resp.history, resp.message, <<>>) IN
          resp' = [resp EXCEPT !.stream = stream, !.assistant_text = <<>>,
                               !.working_history = wh,
                               !.emitted = Append(resp.emitted, wh),
                               !.at = "stream"]
    /\ UNCHANGED nochat

\* app.py:493-499: one chunk of the stream is appended and yielded
Token ==
    /\ resp.at = "stream"
    /\ resp.stream # <<>>
    /\ LET text == Append(resp.assistant_text, Head(resp.stream))
           wh == WithExchange(resp.history, resp.message, text)
       IN  resp' = [resp EXCEPT !.stream = Tail(resp.stream), !.assistant_text = text,
                                !.working_history = wh,
                                !.emitted = Append(resp.emitted, wh)]
    /\ UNCHANGED nochat

\* app.py:501-505: the sources are appended and the last history is yielded
Sources ==
    /\ resp.at = "stream"
    /\ resp.stream = <<>>
    /\ LET src == sources_md(resp.results)
           text == IF src # <<>> THEN resp.assistant_text \o <<"\n\n">> \o src
                   ELSE resp.assistant_text
           wh == WithExchange(resp.history, resp.message, text)
       IN  resp' = [resp EXCEPT !.assistant_text = text, !.working_history = wh,
                                !.emitted = Append(resp.emitted, wh),
                                !.at = "finished"]
    /\ UNCHANGED nochat

ChatNext ==
    \/ Submit
    \/ RespondRetrieve
    \/ Extractive
    \/ FirstYield
    \/ Token
    \/ Sources

ChatSpec == ChatInit /\ [][ChatNext]_vars

\* ------------------------------------------------------------------------
\* CrawlSpec: the breadth-first crawl of crawl_all (crawler.py:28-92).
\* A URL is a sequence of tokens: the part up to the last "/", the name of
\* the page and, for an href, a fragment <<"#", f>>.
\* ------------------------------------------------------------------------

\* the longest list of links of one page
MaxLinks == 2

\* range(3): the attempts to fetch one URL (crawler.py:65)
Attempts == 3

ALLOWED_PREFIX == "https://docs.oxaion.de/spaces/open/"

START_URL == <<ALLOWED_PREFIX, "overview">>

\* the hrefs a page can hold: absolute with and without fragment, relative,
\* a fragment of the page itself, and a URL of another site
Hrefs ==
    {START_URL, <<ALLOWED_PREFIX, "a">>, <<ALLOWED_PREFIX, "a", "#", "f">>, <<"b">>,
     <<"#", "f">>, <<"https://example.com/", "x">>}

\* what extract_link_urls returns for a page: a list of strings
LinkLists == UNION {[1..n -> Hrefs] : n \in 0..MaxLinks}

\* urljoin(base_url, href): an absolute href stays, a relative one replaces
\* the name of the base, a fragment is put behind the base
urljoin(base_url, href) ==
    IF href[1] = "#" THEN base_url \o href
    ELSE IF Len(href) = 1 THEN <<base_url[1]>> \o href
    ELSE href

\* urldefrag(url)[0]: the URL without "#" and what follows it
urldefrag(url) ==
    LET hs == {i \in 1..Len(url) : url[i] = "#"} IN
    IF hs = {} THEN url
    ELSE SubSeq(url, 1, (CHOOSE i \in hs : \A j \in hs : i <= j) - 1)

\* full_url.startswith(ALLOWED_PREFIX)
StartsWithAllowed(url) == url[1] = ALLOWED_PREFIX

\* variant of Enqueues: the visited set is not looked at
EnqueuesIgnoringVisited(full_url, visited, queue) ==
    StartsWithAllowed(full_url) /\ full_url \notin Range(queue)

\* the condition of line 88
Enqueues(full_url, visited, queue) ==
    /\ StartsWithAllowed(full_url)
    /\ full_url \notin visited
    /\ full_url \notin Range(queue)

\* lines 82-90: the loop over the links of a page, from link i on
RECURSIVE EnqueueLinks(_, _, _, _, _)
EnqueueLinks(next_links, i, base_url, visited, queue) ==
    IF i > Len(next_links) THEN queue
    ELSE LET full_url == urldefrag(urljoin(base_url, next_links[i])) IN
         EnqueueLinks(next_links, i + 1, base_url, visited,
                      IF Enqueues(full_url, visited, queue)
                      THEN Append(queue, full_url) ELSE queue)

\* the URLs that the links of a page resolve to
FullUrls(next_links, base_url) ==
    {urldefrag(urljoin(base_url, next_links[i])) : i \in 1..Len(next_links)}

\* the variables CrawlSpec leaves alone
nocrawl == <<env, coll, disk, pc, caller, locals, hist, md_text, text_chunks, text_ids,
             text_ids_again, cleaned, thr, resp>>

CrawlInit ==
    /\ corpus = [f \in Files |-> 0]
    /\ FreshDisk
    /\ pc = "idle"
    /\ NoBuild
    /\ NoText
    /\ NoThreads
    /\ NoChat
    /\ NoCrawl

\* lines 52-53: queue = deque([START_URL]), visited = set()
StartCrawl ==
    /\ crawl.at = "idle"
    /\ crawl' = [IdleCrawl EXCEPT !.at = "loop", !.queue = <<START_URL>>,
                                  !.seen = {START_URL}]
    /\ UNCHANGED nocrawl

\* lines 56-64: popleft; a URL already visited is skipped
Dequeue ==
    /\ crawl.at = "loop"
    /\ crawl.queue # <<>>
    /\ LET url == Head(crawl.queue) IN
       IF url \in crawl.visited
       THEN crawl' = [crawl EXCEPT !.queue = Tail(crawl.queue)]
       ELSE crawl' = [crawl EXCEPT !.queue = Tail(crawl.queue), !.url = url,
                                   !.visited = crawl.visited \cup {url},
                                   !.attempt = 0, !.at = "fetch",
                                   !.processed = Append(crawl.processed, url)]
    /\ UNCHANGED nocrawl

\* lines 65-73: crawler.arun raises; after the last attempt the URL is
\* dropped and the loop goes on
FetchFails ==
    /\ crawl.at = "fetch"
    /\ crawl.attempt < Attempts
    /\ crawl' = IF crawl.attempt + 1 < Attempts
                THEN [crawl EXCEPT !.attempt = crawl.attempt + 1]
                ELSE [crawl EXCEPT !.attempt = crawl.attempt + 1, !.at = "loop",
                                   !.failed = crawl.failed \cup {crawl.url}]
    /\ UNCHANGED nocrawl

\* lines 67-92: crawler.arun returns a result; the page is saved when the
\* result is a success with markdown, and its links are enqueued
FetchReturns ==
    /\ crawl.at = "fetch"
    /\ crawl.attempt < Attempts
    /\ \E success \in BOOLEAN : \E next_links \in LinkLists :
       \E base_url \in {crawl.url, <<ALLOWED_PREFIX, "a">>} :
          LET queue == EnqueueLinks(next_links, 1, base_url, crawl.visited, crawl.queue) IN
          crawl' = [crawl EXCEPT
             !.at = "loop",
             !.saved = IF success THEN crawl.saved \cup {crawl.url} ELSE crawl.saved,
             !.queue = queue,
             !.seen = crawl.seen \cup Range(queue),
             !.refused = crawl.refused \cup
                            (FullUrls(next_links, base_url) \ Range(queue))]
    /\ UNCHANGED nocrawl

\* line 56: the queue is empty, crawl_all returns
EndCrawl ==
    /\ crawl.at = "loop"
    /\ crawl.queue = <<>>
    /\ crawl' = [crawl EXCEPT !.at = "done"]
    /\ UNCHANGED nocrawl

CrawlNext ==
    \/ StartCrawl
    \/ Dequeue
    \/ FetchFails
    \/ FetchReturns
    \/ EndCrawl

CrawlSpec == CrawlInit /\ [][CrawlNext]_vars

\* ------------------------------------------------------------------------
\* ConcSpec: the handlers of the UI call build_index from worker threads
\* (app.py:460-468, 580-584, 619-623; query.py:177-304). The handler of the
\* rebuild button and the chat handler belong to different event listeners
\* and run at the same time; no lock is taken in app.py or in query.py.
\* ------------------------------------------------------------------------

\* the positions of a thread inside build_index
BuildAts == {"scan", "file", "open", "dump", "save", "marker"}

\* the variables ConcSpec leaves alone
seq == <<env, coll, pc, caller, locals, hist, md_text, text_chunks, text_ids,
         text_ids_again, cleaned, resp, crawl>>

\* the records and the manifest that a build of the corpus leaves
BuiltColl(prov) ==
    UNION {{[id |-> IdsOf[f][corpus[f]][k], path |-> f, prov |-> prov] :
               k \in 1..Len(IdsOf[f][corpus[f]])} : f \in {g \in Files : corpus[g] # 0}}

BuiltManifest ==
    [state |-> "ok",
     files |-> [f \in {g \in Files : corpus[g] # 0} |->
                  [mtime |-> mtime[f], ids |-> IdsOf[f][corpus[f]]]]]

\* app.py:619-623: the build at the start has run before the UI is launched
ConcInit ==
    /\ corpus \in [Files -> {0, 1}]
    /\ mtime = [f \in Files |-> 0]
    /\ unreadable = {}
    /\ clock = 0
    /\ \E prov \in {Primary, Secondary} : coll = BuiltColl(prov)
    /\ manifestFile = BuiltManifest
    /\ metaFile = "ok"
    /\ indexFile = TRUE
    /\ pc = "idle"
    /\ NoBuild
    /\ NoText
    /\ NoThreads
    /\ NoChat
    /\ NoCrawl

\* thread t moves to position at
Goto(t, at) == thr' = [thr EXCEPT ![t].at = at]

\* thread t calls build_index, which will return to position ret
CallBuild(t, ret) == thr' = [thr EXCEPT ![t] = [at |-> "scan", i |-> 0, ret |-> ret]]

\* app.py:580-584: the rebuild button calls build_index
ClickRebuild ==
    /\ thr["rebuild"].at = "idle"
    /\ CallBuild("rebuild", "idle")
    /\ UNCHANGED <<disk, seq>>

\* app.py:460-468: a chat message calls retrieve, which calls load_data
SubmitChat ==
    /\ thr["chat"].at = "idle"
    /\ Goto("chat", "load")
    /\ UNCHANGED <<disk, seq>>

\* query.py:290-291: build when the snapshot or the marker does not exist
LoadData(t) ==
    /\ thr[t].at = "load"
    /\ IF metaFile = "absent" \/ ~indexFile THEN CallBuild(t, "try") ELSE Goto(t, "try")
    /\ UNCHANGED <<disk, seq>>

\* query.py:293-298: pickle.load; a snapshot that another thread has opened
\* for writing and not written yet raises EOFError, and load_data builds
TryLoad(t) ==
    /\ thr[t].at = "try"
    /\ IF metaFile = "ok" THEN Goto(t, "query") ELSE CallBuild(t, "retry")
    /\ UNCHANGED <<disk, seq>>

\* query.py:299-300: the second pickle.load is not guarded
Retry(t) ==
    /\ thr[t].at = "retry"
    /\ Goto(t, IF metaFile = "ok" THEN "query" ELSE "idle")
    /\ UNCHANGED <<disk, seq>>

\* query.py:302-329: the search; retrieve returns
Answer(t) ==
    /\ thr[t].at = "query"
    /\ Goto(t, "idle")
    /\ UNCHANGED <<disk, seq>>

\* query.py:186-192: the manifest is loaded and the corpus scanned
Scan(t) ==
    /\ thr[t].at = "scan"
    /\ thr' = [thr EXCEPT ![t].i = 1,
                           ![t].at = IF \E f \in Files : corpus[f] # 0 THEN "file" ELSE "open"]
    /\ UNCHANGED <<disk, seq>>

\* query.py:195-260: one file of the unchanged corpus: the collection holds
\* all its ids, so nothing is deleted, embedded or added
File(t) ==
    /\ thr[t].at = "file"
    /\ thr' = [thr EXCEPT ![t].i = @ + 1,
                           ![t].at = IF thr[t].i < Cardinality({f \in Files : corpus[f] # 0})
                                     THEN "file" ELSE "open"]
    /\ UNCHANGED <<disk, seq>>

\* query.py:262-273: no file was removed; open(META_FILE, "wb") truncates
OpenMeta(t) ==
    /\ thr[t].at = "open"
    /\ metaFile' = "partial"
    /\ Goto(t, "dump")
    /\ UNCHANGED <<manifestFile, indexFile, seq>>

\* query.py:274: pickle.dump and the end of the with block
Dump(t) ==
    /\ thr[t].at = "dump"
    /\ metaFile' = "ok"
    /\ Goto(t, "save")
    /\ UNCHANGED <<manifestFile, indexFile, seq>>

\* query.py:277: _save_manifest
Save(t) ==
    /\ thr[t].at = "save"
    /\ manifestFile' = BuiltManifest
    /\ Goto(t, "marker")
    /\ UNCHANGED <<metaFile, indexFile, seq>>

\* query.py:278-283: the marker; build_index returns to its caller
Marker(t) ==
    /\ thr[t].at = "marker"
    /\ indexFile' = TRUE
    /\ thr' = [thr EXCEPT ![t] = [at |-> thr[t].ret, i |-> 0, ret |-> "idle"]]
    /\ UNCHANGED <<manifestFile, metaFile, seq>>

ConcNext ==
    \/ ClickRebuild
    \/ SubmitChat
    \/ \E t \in Threads :
          \/ LoadData(t)
          \/ TryLoad(t)
          \/ Retry(t)
          \/ Answer(t)
          \/ Scan(t)
          \/ File(t)
          \/ OpenMeta(t)
          \/ Dump(t)
          \/ Save(t)
          \/ Marker(t)

ConcSpec == ConcInit /\ [][ConcNext]_vars

\* ------------------------------------------------------------------------
\* Claims
\* ------------------------------------------------------------------------

\* the ids of the records of file f among records
FileIds(records, f) == {r.id : r \in {x \in records : x.path = f}}

\* the record with identity id
Rec(records, id) == CHOOSE r \in records : r.id = id

\* the ids listed by the entries of a manifest
ManifestIds(m) == UNION {Range(m[f].ids) : f \in DOMAIN m}

\* build_index is about to return, no call of the run has failed, f was read
CleanRun(f) ==
    /\ pc = "done"
    /\ run.failed = {}
    /\ corpus[f] # 0
    /\ f \notin unreadable

\* when the run started, content v of f was the one indexed last: the manifest
\* listed its chunks and the collection held them and no other record of f
IndexedAs(f, v) ==
    /\ run.ver0[f] = v
    /\ corpus[f] # v
    /\ FileIds(run.coll0, f) = Range(IdsOf[f][v])
    /\ f \in DOMAIN run.manifest0.files
    /\ run.manifest0.files[f].ids = IdsOf[f][v]

\* C1: a build that directly follows a completed build, with no change of the
\* corpus in between and a readable collection in both, calls no embedding
\* provider, adds and deletes nothing, and writes the manifest it found.
C1_SecondRunDoesNothing ==
    (pc = "done" /\ run.second /\ "get" \notin run.failed) =>
        /\ run.ops \subseteq {"get"}
        /\ manifestFile = run.manifest0

\* C2: when a build has completed, the ids listed by the manifest are the ids
\* of the records of the collection whose path is a file of the corpus.
C2_ManifestMatchesCollection ==
    pc = "done" =>
        /\ manifestFile.state = "ok"
        /\ ManifestIds(manifestFile.files) = {r.id : r \in {x \in coll : corpus[x.path] # 0}}

\* C3: a file that an earlier build indexed and that is absent from the corpus
\* at the next build has, when that build completes, no record in the
\* collection and no entry in the manifest.
C3_RemovedFileIsPurged ==
    pc = "done" =>
        \A f \in run.gone :
            /\ FileIds(coll, f) = {}
            /\ f \notin DOMAIN manifestFile.files

\* C4: all vectors of the collection come from one embedding provider.
C4_OneProviderInCollection == \A r1, r2 \in coll : r1.prov = r2.prov

\* C5: the query vector of a similarity search comes from the provider of the
\* stored vectors it is compared with.
C5_QueryUsesIndexProvider ==
    lastQuery.asked => \A p \in lastQuery.stored : p = lastQuery.qprov

\* C6: when the primary provider is down or fails for a text of the batch, the
\* batch that _embed_texts returns holds vectors of the secondary provider
\* only, and the call returns and the build goes on whenever the secondary
\* provider answers (its own failure is the case of C16).
C6_FallbackForWholeBatch ==
    (lastEmbed.n > 0 /\ lastEmbed.primaryFailed) =>
        /\ ~lastEmbed.raised =>
              /\ Len(lastEmbed.vecs) = lastEmbed.n
              /\ \A i \in 1..lastEmbed.n : lastEmbed.vecs[i] = Secondary
        /\ ~lastEmbed.stFail =>
              /\ ~lastEmbed.raised
              /\ run.inflight # "" => (pc # "raised" /\ embeddings = lastEmbed.vecs)

\* the primary provider answered the first text and failed on the second; the
\* build is at the add with the batch of the local model
C6_Witness ==
    /\ pc = "add"
    /\ lastEmbed.failAt = 2
    /\ ~lastEmbed.raised

\* new is old with the body of its k-th chunk changed and nothing else
BodyEdit(old, new, k) ==
    /\ Len(old) = Len(new)
    /\ k \in 1..Len(old)
    /\ new[k].title = old[k].title
    /\ new[k].content # old[k].content
    /\ \A j \in 1..Len(old) : j # k => new[j] = old[j]

\* the indexed content v of f was edited in the body of its k-th chunk only
C7Case(f, v, k) ==
    /\ IndexedAs(f, v)
    /\ BodyEdit(ChunksOf[f][v], ChunksOf[f][corpus[f]], k)

\* C7: a build in which no call fails, of a file whose only change is the
\* body of one chunk B, gives B a new identity, deletes the old record of B,
\* embeds and adds the new one; the other chunks keep their identities and
\* their stored records and are neither embedded, added nor deleted.
C7_OnlyEditedChunkReindexed ==
    \A f \in Files : CleanRun(f) =>
        \A v \in 1..Len(DocsOf(f)) : \A k \in 1..Len(ChunksOf[f][v]) :
          C7Case(f, v, k) =>
            LET old == IdsOf[f][v]
                new == IdsOf[f][corpus[f]]
            IN  /\ new[k] # old[k]
                /\ old[k] \notin Ids(coll)
                /\ old[k] \in run.deleted
                /\ new[k] \in Ids(coll)
                /\ new[k] \in run.embedded
                /\ new[k] \in run.added
                /\ \A j \in 1..Len(old) : j # k =>
                      /\ new[j] = old[j]
                      /\ old[j] \in Ids(coll)
                      /\ Rec(coll, old[j]) = Rec(run.coll0, old[j])
                      /\ old[j] \notin run.embedded \cup run.added \cup run.deleted

\* the file had the chunks [A, B, C] and the body of B was edited
C7_Witness ==
    \E f \in Files : \E v \in 1..Len(DocsOf(f)) :
        /\ CleanRun(f)
        /\ Len(ChunksOf[f][v]) = 3
        /\ C7Case(f, v, 2)

\* s without its k-th element
RemoveAt(s, k) == SubSeq(s, 1, k - 1) \o SubSeq(s, k + 1, Len(s))

\* new is old with one heading line inserted as line k
InsertedAt(old, new, k) ==
    /\ k \in 1..Len(new)
    /\ IsHeadingLine(new[k])
    /\ RemoveAt(new, k) = old

\* the number of chunks emitted for the lines in front of line h
Before(lines, h) == Len(chunk_markdown(SubSeq(lines, 1, h - 1)))

\* the next heading line after line h, Len(lines) + 1 if there is none
NextHead(lines, h) ==
    LET hs == {i \in (h + 1)..Len(lines) : IsHeadingLine(lines[i])} IN
    IF hs = {} THEN Len(lines) + 1 ELSE CHOOSE i \in hs : \A j \in hs : i <= j

\* line h is the heading of a chunk that chunk_markdown emits
Emitted(lines, h) ==
    /\ IsHeadingLine(lines[h])
    /\ Before(lines, NextHead(lines, h)) = Before(lines, h) + 1

\* a heading was inserted as line k into the indexed content v of f, in front
\* of the chunk whose heading was line h
C8Case(f, v, k, h) ==
    /\ IndexedAs(f, v)
    /\ InsertedAt(DocsOf(f)[v], DocsOf(f)[corpus[f]], k)
    /\ h \in k..Len(DocsOf(f)[v])
    /\ Emitted(DocsOf(f)[v], h)

\* the chunk has a new identity, embedded and added, and its old one is deleted
C8Reindexed(f, v, h) ==
    LET oldid == IdsOf[f][v][Before(DocsOf(f)[v], h) + 1]
        newid == IdsOf[f][corpus[f]][Before(DocsOf(f)[corpus[f]], h + 1) + 1]
    IN  /\ newid # oldid
        /\ oldid \notin Ids(coll)
        /\ oldid \in run.deleted
        /\ newid \in Ids(coll)
        /\ newid \in run.embedded
        /\ newid \in run.added

\* one more chunk is emitted in front of the chunk than before the insertion
C8Shifted(f, v, h) ==
    Before(DocsOf(f)[corpus[f]], h + 1) = Before(DocsOf(f)[v], h) + 1

C9_CompletedFilesPersisted ==
    (pc \in {"raised", "killed"} /\ run.inflight # "") =>
        \A f \in DOMAIN run.synced :
            /\ manifestFile.state = "ok"
            /\ f \in DOMAIN manifestFile.files
            /\ manifestFile.files[f].ids = run.synced[f]

\* C10: build_index does not return normally when the delete of stale ids,
\* the delete of the records of a removed file or the add has failed.
C10_AuthoritativeFailuresPropagate ==
    pc = "done" => run.failed \cap {"delete", "delete_where", "add"} = {}

\* C11: a build that starts from a manifest file that is absent, unreadable
\* or holds anything but a valid manifest takes the manifest as empty and does
\* not raise because of it.
C11_DamagedManifestReadsEmpty ==
    (caller # "none" /\ run.manifest0.state # "ok") =>
        /\ known_files = {}
        /\ "manifest" \notin run.failed

\* C12: retrieve does not raise when the collection cannot be opened or
\* queried: it returns the empty list.
C12_CollectionFailureGivesNoResults ==
    (pc = "raised" /\ caller = "none") => lastQuery.error # "collection"

\* DOCS_DIR holds no document
EmptyCorpus == \A f \in Files : corpus[f] = 0

\* C14: with no document in the corpus, a build that starts from an empty
\* collection and from no manifest or the manifest of an earlier build does
\* not raise and, when it completes, has written the manifest, the snapshot
\* and the marker and left the collection empty; a retrieve that follows
\* returns the empty list, and raises only when one of its calls fails.
C14_EmptyCorpusBuildsAndAnswers ==
    /\ (caller # "none" /\ EmptyCorpus /\ run.coll0 = {}
          /\ run.manifest0.state \in {"absent", "ok"}) =>
            /\ pc # "raised"
            /\ pc = "done" =>
                  /\ manifestFile = [state |-> "ok", files |-> NoEntries]
                  /\ metaFile = "ok"
                  /\ indexFile
                  /\ coll = {}
    /\ (caller = "none" /\ EmptyCorpus /\ coll = {}) =>
            /\ pc = "answered" => lastQuery.hits = 0
            /\ pc = "raised" => lastQuery.error # ""

\* the corpus never held a document, the build has written the empty manifest
\* and the marker, and retrieve has answered
C14_Witness ==
    /\ pc = "answered"
    /\ EmptyCorpus
    /\ clock = 0
    /\ faults = 0
    /\ coll = {}
    /\ manifestFile = [state |-> "ok", files |-> NoEntries]
    /\ indexFile
    /\ lastQuery.hits = 0

\* C13: retrieve starts a build exactly when the marker or the snapshot is
\* missing, or when the snapshot cannot be loaded; the steps of retrieve
\* outside such a build do not load the manifest and leave the manifest file,
\* the marker and the collection as they are.
C13_RetrieveBuildsOnlyWhenIndexMissing ==
    [][/\ (pc = "idle" /\ (caller' = "load1" \/ pc' = "load")) =>
             (caller' = "load1" <=> (metaFile = "absent" \/ ~indexFile))
       /\ pc = "load" => (caller' = "load2" <=> metaFile # "ok")
       /\ ((pc \in {"load", "load2", "query", "answered"} \/ (pc = "idle" /\ pc' = "load"))
             /\ caller' = "none") =>
             UNCHANGED <<manifestFile, indexFile, coll, manifest, known_files>>
      ]_vars

\* retrieve has answered with the marker and the snapshot in place while the
\* manifest file was damaged: no build has run and nothing has read it
C13_Witness ==
    /\ pc = "answered"
    /\ indexFile
    /\ metaFile = "ok"
    /\ manifestFile.state # "ok"

\* the entry of f in the manifest that _load_manifest reads from file m
EntryOf(m, f) ==
    IF m.state = "ok" /\ f \in DOMAIN m.files THEN {m.files[f]} ELSE {}

\* C15: a build does not raise unless one of its calls fails, and when it
\* completes with a file of the corpus that cannot be read, it has processed
\* every readable file and the records and the manifest entry of the
\* unreadable file are those from before the run.
C15_UnreadableFileIsSkipped ==
    /\ (pc = "raised" /\ caller # "none") => run.failed # {}
    /\ pc = "done" =>
          \A f \in unreadable : corpus[f] # 0 =>
              /\ \A g \in Files : (corpus[g] # 0 /\ g \notin unreadable) =>
                                      g \in DOMAIN run.synced
              /\ {r \in coll : r.path = f} = {r \in run.coll0 : r.path = f}
              /\ EntryOf(manifestFile, f) = EntryOf(run.manifest0, f)

\* a.md, indexed earlier, cannot be read; the build has gone on to b.md
C15_Witness ==
    /\ pc = "done"
    /\ FileA \in unreadable
    /\ FileIds(coll, FileA) # {}
    /\ EntryOf(manifestFile, FileA) # {}
    /\ FileB \in DOMAIN run.synced

\* C16: when the primary provider and then the secondary provider fail for a
\* batch of a build, build_index raises and the collection has got no record
\* of the batch.
C16_BothProvidersFailRaises ==
    (caller # "none" /\ lastEmbed.n > 0 /\ lastEmbed.primaryFailed /\ lastEmbed.stFail) =>
        /\ pc = "raised"
        /\ "embed" \in run.failed
        /\ Range(add_ids) \cap run.added = {}
        /\ {r \in coll : r.id \in Range(add_ids)} \subseteq run.coll0

\* the two providers have failed for the batch of a file and the build raised
C16_Witness ==
    /\ pc = "raised"
    /\ caller # "none"
    /\ add_ids # <<>>
    /\ lastEmbed.n = Len(add_ids)
    /\ lastEmbed.primaryFailed
    /\ lastEmbed.stFail

\* the build started from an absent or unparsable manifest while the
\* collection held, for every file of the corpus, the records of its chunks
C18Case ==
    /\ pc = "done"
    /\ run.manifest0.state \in {"absent", "corrupt"}
    /\ ~EmptyCorpus
    /\ \A f \in Files : corpus[f] # 0 =>
          /\ f \notin unreadable
          /\ FileIds(run.coll0, f) = Range(IdsOf[f][corpus[f]])

\* C18 as stated: a build that starts from an absent or corrupt manifest on a
\* collection that holds the records of the unchanged corpus embeds every
\* chunk of the corpus again.
C18_LostManifestReembedsAll ==
    C18Case =>
        \A f \in Files : corpus[f] # 0 => Range(IdsOf[f][corpus[f]]) \subseteq run.embedded

\* C18 amended: such a build, when it can read the collection, embeds and
\* adds nothing and writes a manifest that lists the chunks of every file.
C18_LostManifestReembedsNothing ==
    (C18Case /\ "get" \notin run.failed) =>
        /\ run.embedded = {}
        /\ run.added = {}
        /\ "embed" \notin run.ops
        /\ coll = run.coll0
        /\ manifestFile.state = "ok"
        /\ \A f \in Files : corpus[f] # 0 =>
              /\ f \in DOMAIN manifestFile.files
              /\ manifestFile.files[f].ids = IdsOf[f][corpus[f]]

\* the manifest was lost after a build of a.md and b.md; the next build has
\* read the collection and is about to return
C18_Witness ==
    /\ C18Case
    /\ "get" \notin run.failed
    /\ corpus[FileA] # 0
    /\ corpus[FileB] # 0
    /\ Cardinality(run.coll0) > 1

Chunked == pc \in {"chunked", "identified", "rechunked"}

\* the first heading line of a document, 0 if it has none
FirstHeading(lines) ==
    LET hs == {i \in 1..Len(lines) : IsHeadingLine(lines[i])} IN
    IF hs = {} THEN 0 ELSE CHOOSE i \in hs : \A j \in hs : i <= j

\* the cleaned text in front of the first heading
Preamble(lines) == clean_text(Strip(Join(SubSeq(lines, 1, FirstHeading(lines) - 1))))

\* C20: when body text that is not empty stands in front of the first
\* heading, the first chunk is that text under the default title and the
\* chunks of the headed sections follow.
C20_PreambleIsFirstChunk ==
    (Chunked /\ FirstHeading(md_text) > 1 /\ Preamble(md_text) # <<>>) =>
        /\ text_chunks # <<>>
        /\ text_chunks[1] = [title |-> DefaultTitle, content |-> Preamble(md_text)]
        /\ Tail(text_chunks) =
              chunk_markdown(SubSeq(md_text, FirstHeading(md_text), Len(md_text)))

\* C17: the rebuild handler and the chat handler are never inside
\* build_index at the same time.
C17_BuildsNeverOverlap ==
    ~(thr["rebuild"].at \in BuildAts /\ thr["chat"].at \in BuildAts)

\* the line after the section that heading line i starts
RECURSIVE SectionEnd(_, _)
SectionEnd(lines, i) ==
    IF i + 1 <= Len(lines) /\ ~IsHeadingLine(lines[i + 1]) THEN SectionEnd(lines, i + 1) ELSE i

\* the headed section that heading line i starts: its title and cleaned body
SectionAt(lines, i) ==
    [title |-> Strip(lines[i]),
     content |-> clean_text(Strip(Join(SubSeq(lines, i + 1, SectionEnd(lines, i)))))]

\* the headed sections of a document from line i on whose cleaned body is
\* not empty, in document order
RECURSIVE HeadedSections(_, _)
HeadedSections(lines, i) ==
    IF i > Len(lines) THEN <<>>
    ELSE (IF IsHeadingLine(lines[i]) /\ SectionAt(lines, i).content # <<>>
          THEN <<SectionAt(lines, i)>> ELSE <<>>) \o HeadedSections(lines, i + 1)

\* the cleaned text in front of any heading, under the default title
Unheaded(lines) ==
    [title |-> DefaultTitle,
     content |-> IF FirstHeading(lines) = 0 THEN clean_text(Strip(Join(lines)))
                 ELSE Preamble(lines)]

\* C21 as stated: chunk_markdown returns exactly the headed sections of the
\* document whose cleaned body is not empty, in document order.
C21_ExactlyHeadedSections ==
    Chunked => text_chunks = HeadedSections(md_text, 1)

\* C21, amended: the chunks with a heading of the document are exactly the
\* headed sections whose cleaned body is not empty, in document order; the
\* only other chunk is one chunk in front of them that holds, under the
\* default title, the cleaned text in front of any heading, which is not
\* empty.
C21_HeadedSectionsAfterUnheaded ==
    Chunked =>
        \/ text_chunks = HeadedSections(md_text, 1)
        \/ /\ Unheaded(md_text).content # <<>>
           /\ text_chunks = <<Unheaded(md_text)>> \o HeadedSections(md_text, 1)

\* a document was chunked in which a section whose lines clean to nothing
\* is followed by a section that is emitted
C21_Witness ==
    /\ Chunked
    /\ \E j, k \in 1..Len(md_text) :
          /\ j < k
          /\ IsHeadingLine(md_text[j]) /\ IsHeadingLine(md_text[k])
          /\ SectionEnd(md_text, j) > j
          /\ SectionAt(md_text, j).content = <<>>
          /\ text_chunks = <<SectionAt(md_text, k)>>

\* a fence delimiter line
IsFence(line) == Strip(line) # <<>> /\ Strip(line)[1] = "~~~"

\* line i stands between an opening and a closing fence delimiter
InFence(lines, i) ==
    /\ ~IsFence(lines[i])
    /\ Cardinality({j \in 1..(i - 1) : IsFence(lines[j])}) % 2 = 1
    /\ \E j \in (i + 1)..Len(lines) : IsFence(lines[j])

\* the lines of a text: str.split("\n")
RECURSIVE SplitLines(_, _)
SplitLines(s, cur) ==
    IF s = <<>> THEN <<cur>>
    ELSE IF Head(s) = "\n" THEN <<cur>> \o SplitLines(Tail(s), <<>>)
    ELSE SplitLines(Tail(s), Append(cur, Head(s)))

\* C22: a line between an opening and a closing fence delimiter is left
\* unchanged: it is a line of the body of a chunk, and no chunk has a title
\* that only a heading-like line inside a fenced block gives it.
C22_FencedLinesUnchanged ==
    Chunked =>
        /\ \A i \in 1..Len(md_text) : InFence(md_text, i) =>
              \E k \in 1..Len(text_chunks) :
                 md_text[i] \in Range(SplitLines(text_chunks[k].content, <<>>))
        /\ \A k \in 1..Len(text_chunks) :
              \/ text_chunks[k].title = DefaultTitle
              \/ \E i \in 1..Len(md_text) :
                    /\ IsHeadingLine(md_text[i])
                    /\ ~InFence(md_text, i)
                    /\ text_chunks[k].title = Strip(md_text[i])

\* C23: clean_text is idempotent: cleaning the cleaned text changes nothing.
C23_CleanTextIdempotent ==
    pc = "cleaned_again" => cleaned[2] = cleaned[1]

\* the identities that a build of the corpus from an empty collection and
\* an empty manifest produces
FreshIds == UNION {Range(IdsOf[f][corpus[f]]) : f \in {g \in Files : corpus[g] # 0}}

\* C24: the build that runs at the start after a killed build, on the same
\* corpus and without a failed call, leaves in the collection exactly the
\* identities that a build from an empty collection and an empty manifest
\* produces.
C24_BuildAfterAbortIsFresh ==
    (pc = "done" /\ caller = "restart" /\ run.failed = {} /\ unreadable = {}) =>
        Ids(coll) = FreshIds

\* s is a prefix of t
IsPrefix(s, t) == Len(s) <= Len(t) /\ SubSeq(t, 1, Len(s)) = s

\* the text of the last assistant message of the n-th emitted history
EmittedText(n) == resp.emitted[n][Len(resp.emitted[n])].content

\* C25: when respond has finished, with generation off it has emitted a
\* history that ends with the user's message and an assistant message that
\* holds the extractive answer and the sources; with generation on it has
\* emitted histories whose last assistant text only grows, and the last one
\* ends with the sources.
C25_RespondEmitsAnswer ==
    resp.at = "finished" =>
        /\ resp.emitted # <<>>
        /\ ~resp.use_llm =>
              resp.emitted[Len(resp.emitted)] =
                 WithExchange(resp.history, resp.message,
                    extractive_answer(resp.results) \o <<"\n\n">> \o sources_md(resp.results))
        /\ resp.use_llm =>
              /\ \A n \in 1..(Len(resp.emitted) - 1) :
                    IsPrefix(EmittedText(n), EmittedText(n + 1))
              /\ \A n \in 1..Len(resp.emitted) :
                    SubSeq(resp.emitted[n], 1, Len(resp.emitted[n]) - 1) =
                       Append(resp.history, [role |-> "user", content |-> resp.message])
              /\ LET last == EmittedText(Len(resp.emitted))
                     src == sources_md(resp.results)
                 IN  SubSeq(last, Len(last) - Len(src) + 1, Len(last)) = src

\* C26: in one crawl no URL is processed more than once; the queue holds
\* only URLs with the allowed prefix, none of them twice and none that is
\* visited; a URL whose attempts all failed is visited, not saved and not
\* enqueued again; and the crawl ends only when every URL that was enqueued
\* has been processed.
C26_NoUrlProcessedTwice ==
    /\ \A i, j \in 1..Len(crawl.processed) :
          crawl.processed[i] = crawl.processed[j] => i = j
    /\ \A i \in 1..Len(crawl.queue) :
          /\ StartsWithAllowed(crawl.queue[i])
          /\ crawl.queue[i] \notin crawl.visited
          /\ \A j \in 1..Len(crawl.queue) : crawl.queue[i] = crawl.queue[j] => i = j
    /\ \A u \in crawl.failed :
          u \in crawl.visited /\ u \notin crawl.saved /\ u \notin Range(crawl.queue)
    /\ crawl.at = "done" =>
          /\ crawl.seen = Range(crawl.processed)
          /\ crawl.visited = crawl.seen

\* a crawl has ended in which a URL was dropped after its last attempt, a
\* URL was processed after it, and a link to a visited URL was not enqueued
C26_Witness ==
    /\ crawl.at = "done"
    /\ \E i, j \in 1..Len(crawl.processed) :
          /\ i < j
          /\ crawl.processed[i] \in crawl.failed
          /\ crawl.processed[j] \in crawl.saved
    /\ crawl.refused \cap crawl.visited # {}

====
